---------------------------- MODULE Spec2Model ----------------------------
(***************************************************************************)
(* Model of the user-task execution core of the kernel                     *)
(* (kernel/src/tasks/mod.rs): handle_syscall, handle_signal and            *)
(* user_entry_inner.                                                       *)
(*                                                                         *)
(* Every task is a coroutine; pc[t] is its position.  The positions are    *)
(* the places where the coroutine can be suspended or where one of its     *)
(* loops starts over:                                                      *)
(*   "drain"      user_entry_inner, line 185 (try_get_signal)              *)
(*   "sig_loop"   handle_signal, line 162 (head of the handler loop)       *)
(*   "step"       user_entry_inner, line 200 (the main handle_syscall)     *)
(*   "exit_check" user_entry_inner, line 204                               *)
(*   "yield"      user_entry_inner, line 213 (yield_now().await)           *)
(*   "done"       user_entry_inner, line 218                               *)
(*                                                                         *)
(* Machine words are 64 bits wide in the kernel.  TLC's integers are 32    *)
(* bits wide, so the model keeps words at 31 bits: every word is in        *)
(* 0..WordMax and arithmetic wraps modulo WordMax + 1.                     *)
(***************************************************************************)
EXTENDS Integers, Sequences, FiniteSets, Bags, TLC

\* ------------------------------------------------------------------ words

\* Largest machine word of the model (2^31 - 1).
WordMax == 2147483647

\* Two's-complement negation of c as a machine word: `(-c) as usize`.
Neg(c) == IF c = 0 THEN 0 ELSE (WordMax - c) + 1

\* Wrapping addition and subtraction of machine words.
AddW(a, b) == IF a > WordMax - b THEN (a - (WordMax - b)) - 1 ELSE a + b
SubW(a, b) == IF a >= b THEN a - b ELSE (WordMax - (b - a)) + 1

\* ----------------------------------------------------------------- bounds

\* handle_syscall invocations explored in one behaviour of Spec.
MaxSteps == 3
\* Signals other tasks may mark pending in one behaviour of Spec.
MaxSends == 1
\* handle_syscall invocations explored in one behaviour of SpecStep.
MaxPlainSteps == 4
\* handle_syscall invocations explored in one behaviour of SpecYield.
MaxYieldSteps == 102
\* handle_syscall invocations explored in one behaviour of SpecTime.
MaxTimeSteps == 3
\* handle_syscall invocations explored in one behaviour of SpecFrame.
MaxFrameSteps == 2
\* handle_syscall invocations explored in one behaviour of SpecLong.
MaxLongSteps == 52
\* Store faults of the two sibling tasks together.
MaxSiblingSteps == 3

\* -------------------------------------------------------------- constants

\* The value the dispatcher's result is compared with: (-500 as isize) as usize.
SentinelCode == 500
Sentinel == Neg(SentinelCode)

\* The stack-growth range of line 102: 0x7ff00000 .. 0x7ffff000 (end excluded).
StackGrowLo == 2146435072
StackGrowHi == 2147479552

\* Bytes kept free below the user stack pointer (line 143).
RedZone == 128
\* size_of::<SignalUserContext>() (line 144); the record is declared in
\* crate::syscall::consts.
SigCxSize == 432
\* Alignment of the signal frame (line 145).
FrameAlign == 16
\* Bytes of one page: VirtPage::from_addr (line 76).
PageSize == 4096
\* Main-loop iterations between two explicit yields (line 211).
YieldPeriod == 50
\* `let ustart = 0` (line 40) and `let sstart = 0` (line 46).
UStart == 0
SStart == 0

\* Signals, by name; num gives SignalFlags::num().
Signals == {"SIGUSR1", "SIGCANCEL"}
num(s) == CASE s = "SIGUSR1" -> 10
            [] s = "SIGCANCEL" -> 33

\* Signal masks are sets of signals; the masks a task may start with.
Masks == {{}, {"SIGCANCEL"}}


\* --------------------------------------------------------- hardware context

\* The saved registers of a task: program counter, stack pointer, return
\* address, argument registers a0..a2, and s0 standing for every other register.
Cx(pcv, spv, rav, a0v, a1v, a2v, s0v) ==
    [sepc |-> pcv, sp |-> spv, ra |-> rav, a0 |-> a0v, a1 |-> a1v, a2 |-> a2v, s0 |-> s0v]

\* Contexts the hardware may save when user code traps (user_restore, line 42).
UserCxs == { Cx(65536, 2147475456, 65600, 7, 8, 9, 5),
             Cx(131072, 2147471008, 131100, 21, 22, 23, 24) }

\* The context of a freshly loaded task.
InitCx == Cx(4096, 2147479536, 0, 0, 0, 0, 0)

\* Context::syscall_ok: the saved program counter moves past the ecall.
syscall_ok(c) == [c EXCEPT !.sepc = AddW(c.sepc, 4)]
\* Context::set_ret: the return register is a0.
set_ret(c, v) == [c EXCEPT !.a0 = v]

\* ------------------------------------------------------------------- traps

\* Store-fault addresses tried: the two ends of the stack-growth range, the
\* addresses next to them, a page of a Clone area and a page of the code.
CloneAddr == 196616
CodeAddr == 65540
FaultAddrs == { StackGrowLo, StackGrowLo - 1, StackGrowHi - 1, StackGrowHi,
                CloneAddr, CodeAddr }

\* arch::TrapType, as trap_pre_handle returns it (line 47).
Trap(ty, a) == [type |-> ty, addr |-> a]
Traps == { Trap(ty, 0) : ty \in {"Breakpoint", "UserEnvCall", "Time", "Unknown"} }
         \cup { Trap("StorePageFault", a) : a \in FaultAddrs }

\* Results of the syscall dispatcher: Ok(v) or Err(e) with e.code() = v.
Outcome(isOk, val) == [ok |-> isOk, v |-> val]
Outcomes == { Outcome(TRUE, 0), Outcome(TRUE, 3), Outcome(TRUE, Sentinel),
              Outcome(FALSE, 1), Outcome(FALSE, SentinelCode) }
NoOutcome == Outcome(TRUE, 0)

\* ------------------------------------------------------------------ memory

\* A frame-tracking record of a memory area; memset is the bag of them.
Tracker(vp, ty) == [vpn |-> vp, mtype |-> ty]

\* VirtPage::from_addr (line 76).
VirtPageOf(addr) == addr \div PageSize

\* The memory of a loaded task: a code page, a cloned page, the top stack page.
InitMemset == SetToBag({ Tracker(VirtPageOf(CodeAddr), "CodeSection"),
                         Tracker(VirtPageOf(CloneAddr), "Clone"),
                         Tracker(VirtPageOf(StackGrowHi - 1), "Stack") })

\* Lines 79-90: is there a tracker of this page in a Clone area?
FindClone(mem, vp) == \E tr \in BagToSet(mem) : tr.vpn = vp /\ tr.mtype = "Clone"

\* Is any frame mapped at this page?
Mapped(mem, vp) == \E tr \in BagToSet(mem) : tr.vpn = vp


\* ---------------------------------------------------------- handle_syscall

\* Mutant of SyscallRet: the error code is stored without negation.
SyscallRet_unnegated(out) == out.v

\* Line 59-61: Ok(x) is stored as x, Err(e) as the negated code.
SyscallRet(out) == IF out.ok THEN out.v ELSE Neg(out.v)

\* Mutant of IsSentinel: every result from the sentinel upwards ends the task.
IsSentinel_atLeast(result) == result >= Sentinel

\* Line 64: the result that ends the task.
IsSentinel(result) == result = Sentinel

\* Mutant of InStackGrowth: the end of the range is included.
InStackGrowth_inclusive(addr) == StackGrowLo <= addr /\ addr <= StackGrowHi

\* Line 102: (0x7ff00000..0x7ffff000).contains(&addr).
InStackGrowth(addr) == StackGrowLo <= addr /\ addr < StackGrowHi

\* Mutant of frame_alloc: one frame more than asked for.
frame_alloc_extra(mem, vp, ty, count) ==
    mem (+) [tr \in {Tracker(vp, ty)} |-> count + 1]

\* Line 104: task.frame_alloc(vpn, mtype, count) adds count trackers.
frame_alloc(mem, vp, ty, count) ==
    mem (+) [tr \in {Tracker(vp, ty)} |-> count]

\* Lines 50-67: the UserEnvCall arm.
EnvCallArm(c, out, mem) ==
    LET result == SyscallRet(out)
        c2 == set_ret(syscall_ok(c), result)
    IN  [cx |-> c2, mem |-> mem,
         verdict |-> IF IsSentinel(result) THEN "Break" ELSE "Continue"]

\* Lines 75-112: the StorePageFault arm.
PageFaultArm(c, addr, mem) ==
    LET vp == VirtPageOf(addr)
    IN  IF FindClone(mem, vp)
        THEN [cx |-> c, mem |-> mem, verdict |-> "Continue"]
        ELSE IF InStackGrowth(addr)
             THEN [cx |-> c, mem |-> frame_alloc(mem, vp, "Stack", 1),
                   verdict |-> "Continue"]
             ELSE [cx |-> c, mem |-> mem, verdict |-> "Break"]

\* Lines 47-115: what handle_syscall does with the trapped context c, the
\* trap, the dispatcher's result (read on a UserEnvCall only) and the memory.
\* "Panic" is the panic!("") of line 73.
HandleTrap(c, trap, out, mem) ==
    CASE trap.type = "UserEnvCall" -> EnvCallArm(c, out, mem)
      [] trap.type = "StorePageFault" -> PageFaultArm(c, trap.addr, mem)
      [] trap.type = "Unknown" -> [cx |-> c, mem |-> mem, verdict |-> "Panic"]
      [] OTHER -> [cx |-> c, mem |-> mem, verdict |-> "Continue"]

\* ----------------------------------------------------------- handle_signal

\* A signal action of the PCB (line 125).
SigAction(h, m, r) == [handler |-> h, mask |-> m, restorer |-> r]

\* Addresses of the user handlers and of the user restorer.
HandlerOf(s) == CASE s = "SIGUSR1" -> 69632
                  [] s = "SIGCANCEL" -> 77824
RestorerAddr == 81920
HandlerMaskOf(s) == CASE s = "SIGUSR1" -> {"SIGUSR1", "SIGCANCEL"}
                      [] s = "SIGCANCEL" -> {"SIGUSR1"}

\* The sigaction tables tried: every signal either has the default action
\* (handler 0) or a handler of its own.  Indexed by signal.num().
SigNums == { num(s) : s \in Signals }
SigOfNum(n) == CHOOSE s \in Signals : num(s) = n
SigActionTables ==
    { [n \in SigNums |->
          IF SigOfNum(n) \in handled
          THEN SigAction(HandlerOf(SigOfNum(n)), HandlerMaskOf(SigOfNum(n)), RestorerAddr)
          ELSE SigAction(0, {}, 0)] : handled \in SUBSET Signals }

\* Lines 141-145: where the SignalUserContext record is put.
SignalFrameAddr(spv) ==
    (SubW(SubW(spv, RedZone), SigCxSize) \div FrameAlign) * FrameAlign

\* Lines 143-144 on a stack pointer below 128 + size_of::<SignalUserContext>():
\* the usize subtraction overflows.
FrameUnderflows(spv) == spv < RedZone + SigCxSize

\* Mutant of InstallMask: the handler's mask is not installed.
InstallMask_keep(cur, act) == cur

\* Line 137: the mask that is active while the handler runs.
InstallMask(cur, act) == act.mask

\* Mutant of EnterHandlerCx: the second argument register is left alone.
EnterHandlerCx_keepA1(c, act, s, frame) ==
    [c EXCEPT !.sepc = act.handler, !.ra = act.restorer,
              !.a0 = num(s), !.a2 = frame]

\* Lines 154-158: the context the handler starts on.
EnterHandlerCx(c, act, s, frame) ==
    [c EXCEPT !.sepc = act.handler, !.ra = act.restorer,
              !.a0 = num(s), !.a1 = 0, !.a2 = frame]

\* Mutant of RestoreMask: the handler's mask stays.
RestoreMask_keep(proc_mask, cur) == cur

\* Line 171: the mask after the handler.
RestoreMask(proc_mask, cur) == proc_mask

\* Mutant of RestoreCx: only the pc is set, the snapshot is not copied back.
RestoreCx_pcOnly(store_cx, cur, upc) == [cur EXCEPT !.sepc = upc]

\* Lines 174-176: the context after the handler: the snapshot, with the pc
\* read from the SignalUserContext record.
RestoreCx(store_cx, cur, upc) == [store_cx EXCEPT !.sepc = upc]

\* Mutant of DefaultExitSignal: every default action is to ignore.
DefaultExitSignal_ignore(s) == 0

\* Lines 127-135: the default action; the signal number given to
\* exit_with_signal, or 0 when the signal is ignored.
DefaultExitSignal(s) == IF s = "SIGCANCEL" THEN num(s) ELSE 0

\* signal.try_get_signal() (line 185): any pending signal, or "none".
try_get_signal(p) == IF p = {} THEN {"none"} ELSE p

\* Mutant of remove_signal: the signal stays pending.
remove_signal_noop(p, s) == p

\* signal.remove_signal(signal) (line 188).
remove_signal(p, s) == p \ {s}

\* Mutant of YieldDue: one iteration late.
YieldDue_late(n) == n > YieldPeriod

\* Line 211: is an explicit yield due?
YieldDue(n) == n >= YieldPeriod


\* ------------------------------------------------------------------- state

VARIABLES
    pc,         \* pc[t]: the position of task t's coroutine
    cx,         \* cx[t]: the hardware context of task t (tcb.cx)
    sigmask,    \* sigmask[t]: tcb.sigmask
    pending,    \* pending[t]: tcb.signal, the pending-signal set
    exit_code,  \* exit_code[t]: the exit status, absent while running
    times,      \* times[t]: the iteration counter of user_entry_inner
    hs,         \* hs[t]: the locals of a handle_signal in progress
    uctx,       \* uctx[t]: the SignalUserContext record in user memory
    memset,     \* pcb.memset: the frame trackers of the process
    sigaction,  \* pcb.sigaction: the signal actions of the process
    panicked,   \* the kernel has panicked (line 73)
    hw,         \* the traps, contexts and dispatcher results of this run
    budget,     \* handle_syscall invocations left in this behaviour
    sends,      \* signals sent by other tasks so far
    lastStep,   \* history: the most recent handle_syscall of each task
    lastSig,    \* history: the most recent handle_signal of each task
    atEntry,    \* history: the signals pending when the iteration began
    delivered,  \* history: handle_signal calls per signal in this iteration
    fresh,      \* history: per signal, the sends that made it pending anew
    nCont,      \* history: main-loop steps that passed the exit check
    nYield,     \* history: explicit yields
    clock,      \* the timer that get_time() reads
    tms,        \* tms[t]: inner.tms, the user and system time of task t
    pf,         \* pf[t]: a store fault of task t that is being handled
    sinceYield, \* history: handle_syscall calls since the last explicit yield
    owed        \* history: signals sent during a handle_signal, not delivered since

vars == << pc, cx, sigmask, pending, exit_code, times, hs, uctx, memset,
           sigaction, panicked, hw, budget, sends, lastStep, lastSig,
           atEntry, delivered, fresh, nCont, nYield, clock, tms, pf,
           sinceYield, owed >>

Tasks == DOMAIN pc

NoExit == [set |-> FALSE, sig |-> 0]
\* exit_with_signal(n) and the exit syscall.
ExitWithSignal(n) == [set |-> TRUE, sig |-> n]
ExitByCall == [set |-> TRUE, sig |-> 0]

NoHs == [active |-> FALSE, signal |-> "none", act |-> SigAction(0, {}, 0),
         proc_mask |-> {}, store_cx |-> InitCx, frame |-> 0]
NoUctx == [pc |-> 0, sig_mask |-> {}]

NoStep == [valid |-> FALSE, where |-> "none", sig |-> "none", mask |-> {},
           trap |-> Trap("Time", 0), out |-> NoOutcome, verdict |-> "none",
           cxTrap |-> InitCx, cxAfter |-> InitCx,
           memBefore |-> EmptyBag, memAfter |-> EmptyBag,
           exitBefore |-> FALSE, stopBefore |-> FALSE]

\* No store fault in progress.
NoPf == [addr |-> 0, cx |-> InitCx, mem |-> EmptyBag, exitBefore |-> FALSE]
NoSig == [phase |-> "none", sig |-> "none", preMask |-> {}, preCx |-> InitCx,
          postMask |-> {}, postCx |-> InitCx, readPc |-> 0, exitSig |-> 0,
          nsteps |-> 0, how |-> "none"]

\* A program counter a handler may store into its SignalUserContext record.
AltPc == 86016

\* What the hardware and the dispatcher may do in a behaviour: every trap
\* and result (FullHw), or one of each kind (FewHw).
\* durs are the timer ticks that may pass while user code runs and while
\* the kernel handles a trap, boot is the timer reading when the tasks start.
FullHw == [traps |-> Traps, cxs |-> UserCxs, outs |-> Outcomes, durs |-> {0}, boot |-> 0]
FewHw == [traps |-> { Trap("UserEnvCall", 0), Trap("Time", 0), Trap("Unknown", 0),
                      Trap("StorePageFault", CodeAddr) },
          cxs |-> UserCxs,
          outs |-> { Outcome(TRUE, 3), Outcome(FALSE, SentinelCode) },
          durs |-> {0}, boot |-> 0]

\* The all-default sigaction table.
DefaultTable == [n \in SigNums |-> SigAction(0, {}, 0)]

\* A task that has just been spawned: signals may already have been sent to
\* it, and it inherits a signal mask.
InitWith(ts, h, b, sd, tables, masks, pends) ==
    /\ pc = [t \in ts |-> "drain"]
    /\ cx = [t \in ts |-> InitCx]
    /\ sigmask \in [ts -> masks]
    /\ pending \in [ts -> pends]
    /\ exit_code = [t \in ts |-> NoExit]
    /\ times = [t \in ts |-> 0]
    /\ hs = [t \in ts |-> NoHs]
    /\ uctx = [t \in ts |-> NoUctx]
    /\ memset = InitMemset
    /\ sigaction \in tables
    /\ panicked = FALSE
    /\ hw = h
    /\ budget = b
    /\ sends = sd
    /\ lastStep = [t \in ts |-> NoStep]
    /\ lastSig = [t \in ts |-> NoSig]
    /\ atEntry = pending
    /\ delivered = [t \in ts |-> [s \in Signals |-> 0]]
    /\ fresh = [t \in ts |-> [s \in Signals |-> 0]]
    /\ nCont = [t \in ts |-> 0]
    /\ nYield = [t \in ts |-> 0]
    /\ clock = h.boot
    /\ tms = [t \in ts |-> [utime |-> 0, stime |-> 0]]
    /\ pf = [t \in ts |-> NoPf]
    /\ sinceYield = [t \in ts |-> 0]
    /\ owed = [t \in ts |-> {}]

Init == InitWith({1}, FewHw, MaxSteps, 0, SigActionTables, Masks, SUBSET Signals)


\* ----------------------------------------------------------------- actions

\* The dispatcher is awaited on a UserEnvCall only (line 59); it may end the
\* calling task (the exit syscall).
OutsFor(trap) == IF trap.type = "UserEnvCall" THEN hw.outs ELSE {NoOutcome}
ExitsFor(trap) == IF trap.type = "UserEnvCall" THEN BOOLEAN ELSE {FALSE}

\* One handle_syscall of task t: user code runs until it traps with context u
\* (lines 41-47), then the trap is handled (lines 48-115).
StepOf(t, where, u, trap, out) ==
    LET r == HandleTrap(u, trap, out, memset)
    IN  [valid |-> TRUE, where |-> where, sig |-> hs[t].signal,
         mask |-> sigmask[t], trap |-> trap, out |-> out,
         verdict |-> r.verdict, cxTrap |-> u, cxAfter |-> r.cx,
         memBefore |-> memset, memAfter |-> r.mem,
         exitBefore |-> exit_code[t].set,
         stopBefore |-> (lastStep[t].stopBefore \/ lastStep[t].verdict = "Break")]

\* Lines 40, 44, 46 and 114: the user time grows by the timer reading after
\* the trap minus ustart, the system time by the reading at the end of the
\* step minus sstart; a step that returns Break leaves before line 114.
AccountUser(tm, trapTime) == [tm EXCEPT !.utime = @ + (trapTime - UStart)]
AccountSys(tm, verdict, endTime) ==
    IF verdict = "Continue" THEN [tm EXCEPT !.stime = @ + (endTime - SStart)] ELSE tm
AccountTime(tm, verdict, trapTime, endTime) ==
    AccountSys(AccountUser(tm, trapTime), verdict, endTime)

\* The timer during one handle_syscall of task t: du ticks pass in user
\* mode, dk ticks while the kernel handles the trap.
StepTime(t, verdict, du, dk) ==
    /\ clock' = clock + du + dk
    /\ tms' = [tms EXCEPT ![t] = AccountTime(@, verdict, clock + du, clock + du + dk)]
    /\ sinceYield' = [sinceYield EXCEPT ![t] = @ + 1]

ExitAfter(t, ex) == IF ex /\ ~exit_code[t].set THEN ExitByCall ELSE exit_code[t]

\* The head of a main-loop iteration (line 182): the history of the drain
\* starts over.
BeginIteration(t) ==
    /\ atEntry' = [atEntry EXCEPT ![t] = pending[t]]
    /\ delivered' = [delivered EXCEPT ![t] = [s \in Signals |-> 0]]
    /\ fresh' = [fresh EXCEPT ![t] = [s \in Signals |-> 0]]

\* Lines 185-190, no signal pending: the drain ends.
DrainNone(t) ==
    /\ ~panicked
    /\ pc[t] = "drain"
    /\ UNCHANGED << clock, tms, pf, sinceYield, owed >>
    /\ "none" \in try_get_signal(pending[t])
    /\ pc' = [pc EXCEPT ![t] = "step"]
    /\ UNCHANGED << cx, sigmask, pending, exit_code, times, hs, uctx, memset,
                    sigaction, panicked, hw, budget, sends, lastStep, lastSig,
                    atEntry, delivered, fresh, nCont, nYield >>

\* Lines 185-188 with lines 125-135: a signal whose handler is 0.
DeliverDefault(t) ==
    /\ ~panicked
    /\ pc[t] = "drain"
    /\ UNCHANGED << clock, tms, pf, sinceYield >>
    /\ \E s \in try_get_signal(pending[t]) \ {"none"} :
        /\ sigaction[num(s)].handler = 0
        /\ LET n == DefaultExitSignal(s)
           IN  /\ exit_code' = [exit_code EXCEPT ![t] =
                                   IF n # 0 THEN ExitWithSignal(n) ELSE @]
               /\ lastSig' = [lastSig EXCEPT ![t] =
                      [phase |-> "default", sig |-> s,
                       preMask |-> sigmask[t], preCx |-> cx[t],
                       postMask |-> sigmask[t], postCx |-> cx[t],
                       readPc |-> 0, exitSig |-> n, nsteps |-> 0,
                       how |-> "default"]]
        /\ pending' = [pending EXCEPT ![t] = remove_signal(@, s)]
        /\ delivered' = [delivered EXCEPT ![t][s] = @ + 1]
        /\ owed' = [owed EXCEPT ![t] = @ \ {s}]
    /\ UNCHANGED << pc, cx, sigmask, times, hs, uctx, memset, sigaction,
                    panicked, hw, budget, sends, lastStep, atEntry, fresh,
                    nCont, nYield >>

\* Lines 185-187 with lines 125-144, in a build with overflow checks, on a
\* stack pointer too small for the record: the mask is swapped, then the
\* subtraction panics.
DeliverPanic(t) ==
    /\ ~panicked
    /\ pc[t] = "drain"
    /\ \E s \in try_get_signal(pending[t]) \ {"none"} :
        /\ sigaction[num(s)].handler # 0
        /\ FrameUnderflows(cx[t].sp)
        /\ sigmask' = [sigmask EXCEPT ![t] = InstallMask(@, sigaction[num(s)])]
    /\ panicked' = TRUE
    /\ UNCHANGED << pc, cx, pending, exit_code, times, hs, uctx, memset, sigaction,
                    hw, budget, sends, lastStep, lastSig, atEntry, delivered,
                    fresh, nCont, nYield, clock, tms, pf, sinceYield, owed >>

\* Lines 185-187 with lines 125-159: a signal with a handler; the mask is
\* swapped, the record is built and the context rewritten.  On a stack
\* pointer too small for the record this is the build without overflow
\* checks, where the subtraction wraps.
DeliverEnter(t) ==
    /\ ~panicked
    /\ pc[t] = "drain"
    /\ UNCHANGED << clock, tms, pf, sinceYield >>
    /\ \E s \in try_get_signal(pending[t]) \ {"none"} :
        LET act == sigaction[num(s)]
            frame == SignalFrameAddr(cx[t].sp)
        IN  /\ act.handler # 0
            /\ hs' = [hs EXCEPT ![t] =
                   [active |-> TRUE, signal |-> s, act |-> act,
                    proc_mask |-> sigmask[t], store_cx |-> cx[t],
                    frame |-> frame]]
            /\ sigmask' = [sigmask EXCEPT ![t] = InstallMask(@, act)]
            /\ uctx' = [uctx EXCEPT ![t] =
                   [pc |-> cx[t].sepc, sig_mask |-> act.mask]]
            /\ cx' = [cx EXCEPT ![t] = EnterHandlerCx(@, act, s, frame)]
            /\ delivered' = [delivered EXCEPT ![t][s] = @ + 1]
            /\ owed' = [owed EXCEPT ![t] = @ \ {s}]
            /\ lastSig' = [lastSig EXCEPT ![t] =
                   [phase |-> "entered", sig |-> s,
                    preMask |-> sigmask[t], preCx |-> cx[t],
                    postMask |-> {}, postCx |-> InitCx,
                    readPc |-> 0, exitSig |-> 0, nsteps |-> 0,
                    how |-> "none"]]
    /\ pc' = [pc EXCEPT ![t] = "sig_loop"]
    /\ UNCHANGED << pending, exit_code, times, memset, sigaction, panicked,
                    hw, budget, sends, lastStep, atEntry, fresh, nCont, nYield >>

\* Lines 171-176 and line 188: the end of handle_signal, with the context
\* cxNow and the record's pc upc as the handler left them.
SignalReturn(t, cxNow, upc, how, steps) ==
    LET m == RestoreMask(hs[t].proc_mask, sigmask[t])
        c == RestoreCx(hs[t].store_cx, cxNow, upc)
    IN  /\ sigmask' = [sigmask EXCEPT ![t] = m]
        /\ cx' = [cx EXCEPT ![t] = c]
        /\ pending' = [pending EXCEPT ![t] = remove_signal(@, hs[t].signal)]
        /\ hs' = [hs EXCEPT ![t] = NoHs]
        /\ uctx' = [uctx EXCEPT ![t] = NoUctx]
        /\ pc' = [pc EXCEPT ![t] = "drain"]
        /\ lastSig' = [lastSig EXCEPT ![t] =
               [@ EXCEPT !.phase = "returned", !.postMask = m, !.postCx = c,
                         !.readPc = upc, !.how = how, !.nsteps = steps]]

\* Lines 162-165: the handler loop sees the exit status.
SigLoopExit(t) ==
    /\ ~panicked
    /\ pc[t] = "sig_loop"
    /\ UNCHANGED << clock, tms, pf, sinceYield, owed >>
    /\ exit_code[t].set
    /\ SignalReturn(t, cx[t], uctx[t].pc, "exit", lastSig[t].nsteps)
    /\ UNCHANGED << exit_code, times, memset, sigaction, panicked, hw, budget,
                    sends, lastStep, atEntry, delivered, fresh, nCont, nYield >>

\* Lines 162-169: one handle_syscall on the handler's context.  The handler
\* may store a new pc into its SignalUserContext record.
SigStep(t) ==
    /\ ~panicked
    /\ pc[t] = "sig_loop"
    /\ UNCHANGED << pf, owed >>
    /\ ~exit_code[t].set
    /\ budget > 0
    /\ \E u \in hw.cxs, trap \in hw.traps, upc \in {uctx[t].pc, AltPc} :
       \E out \in OutsFor(trap), ex \in ExitsFor(trap), du \in hw.durs, dk \in hw.durs :
        LET st == StepOf(t, "sig", u, trap, out)
        IN  /\ lastStep' = [lastStep EXCEPT ![t] = st]
            /\ StepTime(t, st.verdict, du, dk)
            /\ memset' = st.memAfter
            /\ exit_code' = [exit_code EXCEPT ![t] = ExitAfter(t, ex)]
            /\ panicked' = (st.verdict = "Panic")
            /\ budget' = budget - 1
            /\ IF st.verdict = "Break"
               THEN SignalReturn(t, st.cxAfter, upc, "stop", lastSig[t].nsteps + 1)
               ELSE /\ cx' = [cx EXCEPT ![t] = st.cxAfter]
                    /\ uctx' = [uctx EXCEPT ![t].pc = upc]
                    /\ lastSig' = [lastSig EXCEPT ![t].nsteps = @ + 1]
                    /\ UNCHANGED << pc, sigmask, pending, hs >>
    /\ UNCHANGED << times, sigaction, hw, sends, atEntry, delivered, fresh,
                    nCont, nYield >>

\* Line 200: the handle_syscall of the main loop.
MainStep(t) ==
    /\ ~panicked
    /\ pc[t] = "step"
    /\ UNCHANGED << pf, owed >>
    /\ budget > 0
    /\ \E u \in hw.cxs, trap \in hw.traps :
       \E out \in OutsFor(trap), ex \in ExitsFor(trap), du \in hw.durs, dk \in hw.durs :
        LET st == StepOf(t, "main", u, trap, out)
        IN  /\ lastStep' = [lastStep EXCEPT ![t] = st]
            /\ StepTime(t, st.verdict, du, dk)
            /\ memset' = st.memAfter
            /\ cx' = [cx EXCEPT ![t] = st.cxAfter]
            /\ exit_code' = [exit_code EXCEPT ![t] = ExitAfter(t, ex)]
            /\ panicked' = (st.verdict = "Panic")
            /\ pc' = [pc EXCEPT ![t] =
                   CASE st.verdict = "Break" -> "done"
                     [] st.verdict = "Panic" -> "step"
                     [] OTHER -> "exit_check"]
    /\ budget' = budget - 1
    /\ UNCHANGED << sigmask, pending, times, hs, uctx, sigaction, hw, sends,
                    lastSig, atEntry, delivered, fresh, nCont, nYield >>

\* The hardware raises a store fault on a page that is not mapped, or that is
\* mapped read-only for copy-on-write.
StoreFaults(mem, addr) ==
    ~Mapped(mem, VirtPageOf(addr)) \/ FindClone(mem, VirtPageOf(addr))

\* The end of a handle_syscall whose trap was the store fault pf[t]: line 108
\* (Break) or lines 114-115 (Continue) after dk timer ticks in the kernel.
PfFinish(t, verdict, memBefore, memAfter, dk) ==
    /\ lastStep' = [lastStep EXCEPT ![t] =
           [valid |-> TRUE, where |-> "main", sig |-> hs[t].signal,
            mask |-> sigmask[t], trap |-> Trap("StorePageFault", pf[t].addr),
            out |-> NoOutcome, verdict |-> verdict,
            cxTrap |-> pf[t].cx, cxAfter |-> pf[t].cx,
            memBefore |-> memBefore, memAfter |-> memAfter,
            exitBefore |-> pf[t].exitBefore,
            stopBefore |-> (lastStep[t].stopBefore \/ lastStep[t].verdict = "Break")]]
    /\ memset' = memAfter
    /\ clock' = clock + dk
    /\ tms' = [tms EXCEPT ![t] = AccountSys(@, verdict, clock + dk)]
    /\ pf' = [pf EXCEPT ![t] = NoPf]
    /\ pc' = [pc EXCEPT ![t] = IF verdict = "Break" THEN "done" ELSE "exit_check"]

\* handle_syscall of the main loop, taken apart where the PCB lock is
\* released.  Lines 41-47 and 75-76: user code runs for du ticks and traps
\* with a store fault.
PfTrap(t) ==
    /\ ~panicked
    /\ pc[t] = "step"
    /\ budget > 0
    /\ \E u \in hw.cxs, trap \in hw.traps, du \in hw.durs :
        /\ trap.type = "StorePageFault"
        /\ StoreFaults(memset, trap.addr)
        /\ pf' = [pf EXCEPT ![t] = [addr |-> trap.addr, cx |-> u, mem |-> EmptyBag,
                                    exitBefore |-> exit_code[t].set]]
        /\ cx' = [cx EXCEPT ![t] = u]
        /\ clock' = clock + du
        /\ tms' = [tms EXCEPT ![t] = AccountUser(@, clock + du)]
    /\ sinceYield' = [sinceYield EXCEPT ![t] = @ + 1]
    /\ budget' = budget - 1
    /\ pc' = [pc EXCEPT ![t] = "pf_lookup"]
    /\ UNCHANGED << sigmask, pending, exit_code, times, hs, uctx, memset, sigaction,
                    panicked, hw, sends, lastStep, lastSig, atEntry, delivered,
                    fresh, nCont, nYield, owed >>

\* Lines 79-90: the lookup of a Clone record, under task.pcb.lock(); the
\* guard is a temporary of that statement and is dropped at its end.  Lines
\* 94-100 (found: nothing is done) and 101-110 (not found, outside the
\* stack-growth range: Break) need no further access to the PCB.
PfLookup(t) ==
    /\ ~panicked
    /\ pc[t] = "pf_lookup"
    /\ LET vp == VirtPageOf(pf[t].addr)
       IN  IF FindClone(memset, vp)
           THEN \E dk \in hw.durs :
                    PfFinish(t, "Continue", memset, memset, dk)
           ELSE IF InStackGrowth(pf[t].addr)
                THEN /\ pf' = [pf EXCEPT ![t].mem = memset]
                     /\ pc' = [pc EXCEPT ![t] = "pf_alloc"]
                     /\ UNCHANGED << lastStep, memset, clock, tms >>
                ELSE \E dk \in hw.durs : PfFinish(t, "Break", memset, memset, dk)
    /\ UNCHANGED << cx, sigmask, pending, exit_code, times, hs, uctx, sigaction,
                    panicked, hw, budget, sends, lastSig, atEntry, delivered,
                    fresh, nCont, nYield, sinceYield, owed >>

\* Line 104: task.frame_alloc(vpn, MemType::Stack, 1), which takes the PCB
\* lock again, then lines 114-115.
PfAlloc(t) ==
    /\ ~panicked
    /\ pc[t] = "pf_alloc"
    /\ \E dk \in hw.durs :
           PfFinish(t, "Continue", pf[t].mem,
                    frame_alloc(memset, VirtPageOf(pf[t].addr), "Stack", 1), dk)
    /\ UNCHANGED << cx, sigmask, pending, exit_code, times, hs, uctx, sigaction,
                    panicked, hw, budget, sends, lastSig, atEntry, delivered,
                    fresh, nCont, nYield, sinceYield, owed >>

\* Lines 204-214: the exit check, the counter and the decision to yield.
ExitCheck(t) ==
    /\ ~panicked
    /\ pc[t] = "exit_check"
    /\ UNCHANGED << clock, tms, pf, sinceYield, owed >>
    /\ IF exit_code[t].set
       THEN /\ pc' = [pc EXCEPT ![t] = "done"]
            /\ UNCHANGED << times, atEntry, delivered, fresh, nCont, nYield >>
       ELSE LET due == YieldDue(times[t] + 1)
            IN  /\ times' = [times EXCEPT ![t] = IF due THEN 0 ELSE @ + 1]
                /\ nCont' = [nCont EXCEPT ![t] = @ + 1]
                /\ nYield' = [nYield EXCEPT ![t] = IF due THEN @ + 1 ELSE @]
                /\ pc' = [pc EXCEPT ![t] = IF due THEN "yield" ELSE "drain"]
                /\ IF due
                   THEN UNCHANGED << atEntry, delivered, fresh >>
                   ELSE BeginIteration(t)
    /\ UNCHANGED << cx, sigmask, pending, exit_code, hs, uctx, memset,
                    sigaction, panicked, hw, budget, sends, lastStep, lastSig >>

\* Line 213: yield_now().await returns.
Yield(t) ==
    /\ ~panicked
    /\ pc[t] = "yield"
    /\ UNCHANGED << clock, tms, pf, owed >>
    /\ sinceYield' = [sinceYield EXCEPT ![t] = 0]
    /\ pc' = [pc EXCEPT ![t] = "drain"]
    /\ BeginIteration(t)
    /\ UNCHANGED << cx, sigmask, pending, exit_code, times, hs, uctx, memset,
                    sigaction, panicked, hw, budget, sends, lastStep, lastSig,
                    nCont, nYield >>

\* Another task marks signal s pending for task t (signal.add_signal).
SendSignal(t, s) ==
    /\ ~panicked
    /\ pc[t] # "done"
    /\ UNCHANGED << clock, tms, pf, sinceYield >>
    /\ owed' = [owed EXCEPT ![t] = IF pc[t] = "sig_loop" THEN @ \cup {s} ELSE @]
    /\ sends < MaxSends
    /\ sends' = sends + 1
    /\ pending' = [pending EXCEPT ![t] = @ \cup {s}]
    /\ fresh' = [fresh EXCEPT ![t][s] = IF s \in pending[t] THEN @ ELSE @ + 1]
    /\ UNCHANGED << pc, cx, sigmask, exit_code, times, hs, uctx, memset,
                    sigaction, panicked, hw, budget, lastStep, lastSig,
                    atEntry, delivered, nCont, nYield >>

Next ==
    \/ \E t \in Tasks : DrainNone(t)
    \/ \E t \in Tasks : DeliverDefault(t)
    \/ \E t \in Tasks : DeliverEnter(t)
    \/ \E t \in Tasks : SigLoopExit(t)
    \/ \E t \in Tasks : SigStep(t)
    \/ \E t \in Tasks : MainStep(t)
    \/ \E t \in Tasks : ExitCheck(t)
    \/ \E t \in Tasks, s \in Signals : SendSignal(t, s)

Spec == Init /\ [][Next]_vars

\* Tasks without signals, under every trap and dispatcher result.
InitStep == InitWith({1}, FullHw, MaxPlainSteps, MaxSends, {DefaultTable}, Masks, {{}})
NextStep ==
    \/ \E t \in Tasks : DrainNone(t)
    \/ \E t \in Tasks : MainStep(t)
    \/ \E t \in Tasks : ExitCheck(t)
SpecStep == InitStep /\ [][NextStep]_vars

\* A long-running task without signals.
YieldHw == [traps |-> { Trap("UserEnvCall", 0), Trap("Time", 0),
                        Trap("StorePageFault", CodeAddr) },
            cxs |-> { Cx(65536, 2147475456, 65600, 7, 8, 9, 5) },
            outs |-> { Outcome(TRUE, 3), Outcome(FALSE, SentinelCode) },
            durs |-> {0}, boot |-> 0]
InitYield == InitWith({1}, YieldHw, MaxYieldSteps, MaxSends, {DefaultTable}, {{}}, {{}})
NextYield ==
    \/ \E t \in Tasks : DrainNone(t)
    \/ \E t \in Tasks : MainStep(t)
    \/ \E t \in Tasks : ExitCheck(t)
    \/ \E t \in Tasks : Yield(t)
SpecYield == InitYield /\ [][NextYield]_vars

\* A task that starts when the timer reads 5, under a timer that advances by
\* one or two ticks in user mode and in the kernel.
TimeHw == [traps |-> { Trap("UserEnvCall", 0), Trap("Time", 0),
                       Trap("StorePageFault", CodeAddr) },
           cxs |-> { Cx(65536, 2147475456, 65600, 7, 8, 9, 5) },
           outs |-> { Outcome(TRUE, 3), Outcome(FALSE, SentinelCode) },
           durs |-> {1, 2}, boot |-> 5]
InitTime == InitWith({1}, TimeHw, MaxTimeSteps, MaxSends, {DefaultTable}, {{}}, {{}})
NextTime ==
    \/ \E t \in Tasks : DrainNone(t)
    \/ \E t \in Tasks : MainStep(t)
    \/ \E t \in Tasks : ExitCheck(t)
SpecTime == InitTime /\ [][NextTime]_vars

\* A task that takes signals while its stack pointer may be anywhere, also
\* within the first bytes of the address space.
LowSpCx == Cx(65536, 64, 65600, 7, 8, 9, 5)
FrameHw == [traps |-> { Trap("UserEnvCall", 0), Trap("Time", 0) },
            cxs |-> { Cx(65536, 2147475456, 65600, 7, 8, 9, 5), LowSpCx },
            outs |-> { Outcome(TRUE, 3), Outcome(FALSE, SentinelCode) },
            durs |-> {0}, boot |-> 0]
InitFrame == InitWith({1}, FrameHw, MaxFrameSteps, 0, SigActionTables, {{}}, SUBSET Signals)
NextFrame ==
    \/ \E t \in Tasks : DrainNone(t)
    \/ \E t \in Tasks : DeliverDefault(t)
    \/ \E t \in Tasks : DeliverEnter(t)
    \/ \E t \in Tasks : DeliverPanic(t)
    \/ \E t \in Tasks : SigLoopExit(t)
    \/ \E t \in Tasks : SigStep(t)
    \/ \E t \in Tasks : MainStep(t)
    \/ \E t \in Tasks : ExitCheck(t)
    \/ \E t \in Tasks, s \in Signals : SendSignal(t, s)
SpecFrame == InitFrame /\ [][NextFrame]_vars

\* A task whose signal handler runs for many Syscall Steps.
LongHw == [traps |-> { Trap("UserEnvCall", 0), Trap("Time", 0) },
           cxs |-> { Cx(65536, 2147475456, 65600, 7, 8, 9, 5) },
           outs |-> { Outcome(TRUE, 3), Outcome(FALSE, SentinelCode) },
           durs |-> {0}, boot |-> 0]
HandledTables == { tb \in SigActionTables : \A n \in SigNums : tb[n].handler # 0 }
InitLong ==
    InitWith({1}, LongHw, MaxLongSteps, MaxSends, HandledTables, {{}}, {{}, {"SIGUSR1"}})
NextLong ==
    \/ \E t \in Tasks : DrainNone(t)
    \/ \E t \in Tasks : DeliverEnter(t)
    \/ \E t \in Tasks : SigLoopExit(t)
    \/ \E t \in Tasks : SigStep(t)
    \/ \E t \in Tasks : MainStep(t)
    \/ \E t \in Tasks : ExitCheck(t)
    \/ \E t \in Tasks : Yield(t)
SpecLong == InitLong /\ [][NextLong]_vars

\* Two sibling tasks of one PCB that run on two harts and store-fault: on the
\* first page of the stack-growth range, on the page above the range, and on
\* the cloned page.
SiblingHw == [traps |-> { Trap("StorePageFault", StackGrowLo),
                          Trap("StorePageFault", StackGrowHi),
                          Trap("StorePageFault", CloneAddr) },
              cxs |-> { Cx(65536, 2147475456, 65600, 7, 8, 9, 5) },
              outs |-> { Outcome(TRUE, 3) },
              durs |-> {0}, boot |-> 0]
InitSibling ==
    InitWith({1, 2}, SiblingHw, MaxSiblingSteps, MaxSends, {DefaultTable}, {{}}, {{}})
NextSibling ==
    \/ \E t \in Tasks : DrainNone(t)
    \/ \E t \in Tasks : PfTrap(t)
    \/ \E t \in Tasks : PfLookup(t)
    \/ \E t \in Tasks : PfAlloc(t)
    \/ \E t \in Tasks : ExitCheck(t)
SpecSibling == InitSibling /\ [][NextSibling]_vars


\* ------------------------------------------------------------------ claims

\* The machine word that is the two's complement of -c, for 0 < c.
MinusWord(c) == 2147483647 - c + 1

\* The value the claims expect in the return register for a dispatcher result.
ExpectedRet(out) == IF out.ok \/ out.v = 0 THEN out.v ELSE MinusWord(out.v)

\* C1: for every dispatcher result other than the termination sentinel, the
\* return register holds the success value of Ok(x), or the two's-complement
\* negation of the error code of Err(e), and the step returns Continue.
C1_ReturnRegister ==
    \A t \in Tasks :
        LET st == lastStep[t]
        IN  (st.valid /\ st.trap.type = "UserEnvCall"
                /\ ExpectedRet(st.out) # MinusWord(500))
            => /\ st.cxAfter.a0 = ExpectedRet(st.out)
               /\ st.verdict = "Continue"

\* A step whose dispatcher returned Err with code 1, stored as -1.
C1_Witness ==
    \E t \in Tasks :
        /\ lastStep[t].valid
        /\ lastStep[t].trap.type = "UserEnvCall"
        /\ lastStep[t].out = Outcome(FALSE, 1)
        /\ lastStep[t].cxAfter.a0 = 2147483647
        /\ cx[t].a0 = 2147483647
        /\ pc[t] = "exit_check"

\* C2: when the dispatcher's result maps to the termination sentinel, that
\* value is in the return register and the step returns Break; on the
\* syscall path the step returns Break in that case only.
C2_SentinelStops ==
    \A t \in Tasks :
        LET st == lastStep[t]
        IN  (st.valid /\ st.trap.type = "UserEnvCall")
            => /\ (ExpectedRet(st.out) = MinusWord(500))
                    => (st.cxAfter.a0 = MinusWord(500) /\ st.verdict = "Break")
               /\ (st.verdict = "Break") => (ExpectedRet(st.out) = MinusWord(500))
               /\ (st.where = "main" /\ st.verdict = "Break") => pc[t] = "done"

\* A main-loop step ended by Err with code 500.
C2_Witness ==
    \E t \in Tasks :
        /\ lastStep[t].valid
        /\ lastStep[t].trap.type = "UserEnvCall"
        /\ lastStep[t].out = Outcome(FALSE, 500)
        /\ lastStep[t].verdict = "Break"
        /\ cx[t].a0 = MinusWord(500)
        /\ pc[t] = "done"

\* Is the address in [0x7ff00000, 0x7ffff000)?
InGrowthRange(a) == 2146435072 <= a /\ a < 2147479552

\* C3: a store fault in the stack-growth range on a page without a mapping
\* maps one new frame, tagged Stack, at that page and nothing else, and the
\* step returns Continue.
C3_StackGrowth ==
    \A t \in Tasks :
        LET st == lastStep[t]
            vp == st.trap.addr \div 4096
        IN  (st.valid /\ st.trap.type = "StorePageFault"
                /\ InGrowthRange(st.trap.addr) /\ ~Mapped(st.memBefore, vp))
            => /\ st.verdict = "Continue"
               /\ st.memAfter = st.memBefore (+) SetToBag({Tracker(vp, "Stack")})
               /\ CopiesIn(Tracker(vp, "Stack"), st.memAfter) = 1
               /\ st.cxAfter = st.cxTrap

\* A fault at the first address of the range has mapped its page.
C3_Witness ==
    \E t \in Tasks :
        /\ lastStep[t].valid
        /\ lastStep[t].trap = Trap("StorePageFault", 2146435072)
        /\ ~Mapped(lastStep[t].memBefore, 2146435072 \div 4096)
        /\ CopiesIn(Tracker(2146435072 \div 4096, "Stack"), memset) = 1
        /\ pc[t] = "exit_check"

\* C4: a store fault outside the stack-growth range on a page without a Clone
\* record returns Break, allocates no frame and leaves the context as it was.
C4_BadFaultStops ==
    \A t \in Tasks :
        LET st == lastStep[t]
            vp == st.trap.addr \div 4096
        IN  (st.valid /\ st.trap.type = "StorePageFault"
                /\ ~InGrowthRange(st.trap.addr) /\ ~FindClone(st.memBefore, vp))
            => /\ st.verdict = "Break"
               /\ st.memAfter = st.memBefore
               /\ st.cxAfter = st.cxTrap

\* A fault at the first address above the range has ended the main loop.
C4_Witness ==
    \E t \in Tasks :
        /\ lastStep[t].valid
        /\ lastStep[t].trap = Trap("StorePageFault", 2147479552)
        /\ lastStep[t].verdict = "Break"
        /\ memset = lastStep[t].memBefore
        /\ cx[t] = lastStep[t].cxTrap
        /\ pc[t] = "done"


\* C5: after handle_signal returns from a delivery with a handler, the active
\* mask is the mask the task had before the delivery, however many steps the
\* handler ran and whether it ended by a Break or by the exit status.
C5_MaskRestored ==
    \A t \in Tasks :
        lastSig[t].phase = "returned"
        => /\ lastSig[t].postMask = lastSig[t].preMask
           /\ (pc[t] = "drain" /\ lastSig[t].how \in {"stop", "exit"})
                => sigmask[t] = lastSig[t].preMask

\* A handler that ran two steps and was ended by the task's exit status; the
\* handler's mask differed from the task's.
C5_Witness ==
    \E t \in Tasks :
        /\ lastSig[t].phase = "returned"
        /\ lastSig[t].how = "exit"
        /\ lastSig[t].nsteps = 2
        /\ lastSig[t].preMask # sigaction[num(lastSig[t].sig)].mask
        /\ sigmask[t] = lastSig[t].preMask
        /\ pc[t] = "drain"

\* C6: at every Syscall Step that handle_signal runs, the active mask is the
\* mask of the delivered signal's action.
C6_HandlerMask ==
    \A t \in Tasks :
        /\ pc[t] = "sig_loop"
             => sigmask[t] = sigaction[num(hs[t].signal)].mask
        /\ (lastStep[t].valid /\ lastStep[t].where = "sig")
             => lastStep[t].mask = sigaction[num(lastStep[t].sig)].mask

\* A step has run inside a handler whose mask differs from the task's own.
C6_Witness ==
    \E t \in Tasks :
        /\ pc[t] = "sig_loop"
        /\ lastStep[t].valid /\ lastStep[t].where = "sig"
        /\ lastSig[t].nsteps = 2
        /\ hs[t].proc_mask # sigmask[t]
        /\ sigmask[t] = {"SIGUSR1", "SIGCANCEL"}

\* Do two contexts agree on every register but the program counter?
SameButPc(a, b) ==
    /\ a.sp = b.sp /\ a.ra = b.ra /\ a.a0 = b.a0
    /\ a.a1 = b.a1 /\ a.a2 = b.a2 /\ a.s0 = b.s0

\* C7: after handle_signal returns from a delivery with a handler, every
\* register but the program counter has its value from before the delivery,
\* and the program counter is the pc read back from the SignalUserContext.
C7_ContextRestored ==
    \A t \in Tasks :
        lastSig[t].phase = "returned"
        => /\ SameButPc(lastSig[t].postCx, lastSig[t].preCx)
           /\ lastSig[t].postCx.sepc = lastSig[t].readPc

\* A handler whose steps changed every register and which stored another pc
\* into the record.
C7_Witness ==
    \E t \in Tasks :
        /\ lastSig[t].phase = "returned"
        /\ lastSig[t].nsteps >= 1
        /\ lastStep[t].where = "sig"
        /\ lastStep[t].cxAfter.sp # lastSig[t].preCx.sp
        /\ lastStep[t].cxAfter.ra # lastSig[t].preCx.ra
        /\ lastStep[t].cxAfter.a0 # lastSig[t].preCx.a0
        /\ lastStep[t].cxAfter.a1 # lastSig[t].preCx.a1
        /\ lastStep[t].cxAfter.a2 # lastSig[t].preCx.a2
        /\ lastStep[t].cxAfter.s0 # lastSig[t].preCx.s0
        /\ lastSig[t].readPc = AltPc
        /\ lastSig[t].preCx.sepc # AltPc
        /\ cx[t] = lastSig[t].postCx
        /\ cx[t].sepc = AltPc
        /\ pc[t] = "drain"

\* Is signal s pending for t and not the one handle_signal is delivering?
Waiting(t, s) == s \in pending[t] /\ ~(pc[t] = "sig_loop" /\ hs[t].signal = s)

\* C8: every signal pending when an iteration begins has been delivered and
\* cleared when the iteration's main-loop step is about to run, and none is
\* delivered twice.  A signal that another task sends after it was cleared
\* is pending anew (fresh[t][s] counts these sends): throughout the
\* iteration the deliveries of s, plus one while s waits, are one for s
\* pending at the head plus one for each such send.
C8_DrainExhaustive ==
    \A t \in Tasks :
        /\ \A s \in Signals :
              delivered[t][s] + (IF Waiting(t, s) THEN 1 ELSE 0)
                = (IF s \in atEntry[t] THEN 1 ELSE 0) + fresh[t][s]
        /\ pc[t] = "step"
             => \A s \in atEntry[t] :
                   /\ delivered[t][s] >= 1
                   /\ fresh[t][s] = 0 => (delivered[t][s] = 1 /\ s \notin pending[t])

\* Two signals were pending at the head of the iteration; both have been
\* delivered once and the main-loop step is next.
C8_Witness ==
    \E t \in Tasks :
        /\ pc[t] = "step"
        /\ atEntry[t] = {"SIGUSR1", "SIGCANCEL"}
        /\ \A s \in Signals : delivered[t][s] = 1 /\ fresh[t][s] = 0
        /\ pending[t] = {}
        /\ lastStep[t].valid /\ lastStep[t].where = "sig"

\* The exit status that exit_with_signal(SIGCANCEL) leaves.
Cancelled(t) == exit_code[t] = [set |-> TRUE, sig |-> num("SIGCANCEL")]

\* C9: a pending SIGCANCEL with the default action is delivered by calling
\* exit_with_signal with SIGCANCEL's number; the trampoline is not entered
\* (context and mask as before); the main loop then ends at its exit check
\* and begins no further iteration.
C9_State ==
    \A t \in Tasks :
        (lastSig[t].phase = "default" /\ lastSig[t].sig = "SIGCANCEL")
        => /\ lastSig[t].exitSig = num("SIGCANCEL")
           /\ Cancelled(t)
           /\ lastSig[t].postCx = lastSig[t].preCx
           /\ lastSig[t].postMask = lastSig[t].preMask
           /\ hs[t] = NoHs
           /\ pc[t] \in {"drain", "step", "exit_check", "done"}
C9_Step ==
    \A t \in Tasks :
        Cancelled(t)
        => /\ Cancelled(t)'
           /\ nCont'[t] = nCont[t]
           /\ (pc[t] = "exit_check" /\ pc'[t] # pc[t]) => pc'[t] = "done"
           /\ pc[t] = "done" => pc'[t] = "done"
C9_CancelDefault == [](C9_State) /\ [][C9_Step]_vars

\* SIGCANCEL was delivered by default and the main loop has ended at its
\* exit check.
C9_Witness ==
    \E t \in Tasks :
        /\ lastSig[t].phase = "default" /\ lastSig[t].sig = "SIGCANCEL"
        /\ Cancelled(t)
        /\ lastStep[t].valid /\ lastStep[t].verdict = "Continue"
        /\ pc[t] = "done"

\* C10: no explicit yield during the first 49 main-loop steps that pass the
\* exit check; one yield after the 50th, with the counter back at 0; so a
\* yield after exactly every 50th such step.
C10_YieldEvery50 ==
    \A t \in Tasks :
        /\ nYield[t] = nCont[t] \div 50
        /\ times[t] = nCont[t] % 50
        /\ pc[t] = "yield" => (nCont[t] > 0 /\ nCont[t] % 50 = 0 /\ times[t] = 0)
        /\ pc[t] \in {"drain", "step", "exit_check"} /\ nCont[t] % 50 = 0
             => nYield[t] * 50 = nCont[t]

\* The task is suspended in its second yield, after 100 steps.
C10_Witness ==
    \E t \in Tasks :
        /\ pc[t] = "yield"
        /\ nCont[t] = 100
        /\ nYield[t] = 2
        /\ times[t] = 0

\* A handle_syscall of task t has returned Break.
Stopped(t) ==
    lastStep[t].valid /\ (lastStep[t].stopBefore \/ lastStep[t].verdict = "Break")

\* C11: once a Syscall Step of a task has returned Break (a page fault
\* outside every policy, or the sentinel), whether in the main loop or inside
\* a signal delivery, no further Syscall Step of that task starts and its
\* main loop ends; a main loop ends only by its own task's Break or exit
\* status.
C11_StopEndsLoop ==
    \A t \in Tasks :
        /\ lastStep[t].valid => ~lastStep[t].stopBefore
        /\ (lastStep[t].valid /\ lastStep[t].where = "main"
              /\ lastStep[t].verdict = "Break") => pc[t] = "done"
        /\ pc[t] = "done" => (Stopped(t) \/ exit_code[t].set)

\* The last step of task t was a store fault on a page with a Clone record.
CloneFault(t) ==
    /\ lastStep[t].valid
    /\ lastStep[t].trap.type = "StorePageFault"
    /\ FindClone(lastStep[t].memBefore, VirtPageOf(lastStep[t].trap.addr))

\* C12: a step that store-faults on a page with a frame record in a Clone
\* area returns Continue with the page copied: the page then has a private
\* frame record and no Clone record any more, so the retried write does not
\* raise the same fault again.
C12_CloneCopied ==
    \A t \in Tasks :
        CloneFault(t) =>
            LET vp == VirtPageOf(lastStep[t].trap.addr)
            IN  /\ lastStep[t].verdict = "Continue"
                /\ ~FindClone(lastStep[t].memAfter, vp)
                /\ \E tr \in BagToSet(lastStep[t].memAfter) :
                       tr.vpn = vp /\ tr.mtype # "Clone"

\* Frame records of page vp in the shared memset.
FramesAt(mem, vp) ==
    CopiesIn(Tracker(vp, "Stack"), mem) + CopiesIn(Tracker(vp, "Clone"), mem)
        + CopiesIn(Tracker(vp, "CodeSection"), mem)

\* Task t is between its fault lookup and its frame allocation for page vp.
InFaultSection(t, vp) == pc[t] = "pf_alloc" /\ VirtPageOf(pf[t].addr) = vp

\* C13: when sibling tasks of one PCB store-fault on the same unmapped page
\* of the stack-growth range, no two of them are between lookup and
\* allocation for that page at once, and the page never has more than one
\* frame record.
C13_OneFramePerPage ==
    \A a \in { tr.addr : tr \in hw.traps } :
        InStackGrowth(a) =>
            /\ \A t1, t2 \in Tasks :
                   InFaultSection(t1, VirtPageOf(a)) /\ InFaultSection(t2, VirtPageOf(a))
                       => t1 = t2
            /\ FramesAt(memset, VirtPageOf(a)) <= 1

\* Timer ticks since the tasks started.
Elapsed == clock - hw.boot

\* C14: the user time and the system time of a task are sums of timer
\* intervals that lie within its run, so together they never exceed the
\* timer time elapsed since the task started.
C14_TimeWithinElapsed ==
    \A t \in Tasks : tms[t].utime + tms[t].stime <= Elapsed

\* C15: a task never runs more than 50 consecutive Syscall Steps, those of a
\* signal delivery counted like those of the main loop, without an explicit
\* yield in between.
C15_YieldBoundsRun ==
    \A t \in Tasks : sinceYield[t] <= 50

\* Task t is in handle_signal and the handler's first Syscall Step has not
\* run yet.
HandlerStarts(t) ==
    pc[t] = "sig_loop" /\ lastSig[t].phase = "entered" /\ lastSig[t].nsteps = 0

\* C16: the context the handler's first Syscall Step runs on has the
\* handler's address as pc, the restorer's address as return address, the
\* signal number, 0 and the address of the SignalUserContext record in a0,
\* a1 and a2, and the pre-delivery value in every other register.
C16_HandlerContext ==
    \A t \in Tasks :
        HandlerStarts(t) =>
            LET s == lastSig[t].sig
                pre == lastSig[t].preCx
            IN  /\ sigaction[num(s)].handler # 0
                /\ cx[t].sepc = sigaction[num(s)].handler
                /\ cx[t].ra = sigaction[num(s)].restorer
                /\ cx[t].a0 = num(s)
                /\ cx[t].a1 = 0
                /\ cx[t].a2 = hs[t].frame
                /\ cx[t].sp = pre.sp
                /\ cx[t].s0 = pre.s0

\* SIGUSR1 is being delivered to its handler on a context whose argument
\* registers held other values.
C16_Witness ==
    \E t \in Tasks :
        /\ HandlerStarts(t)
        /\ lastSig[t].sig = "SIGUSR1"
        /\ lastSig[t].preCx.a1 # 0
        /\ lastSig[t].preCx.a0 # num("SIGUSR1")
        /\ cx[t].a1 = 0

\* C17: the SignalUserContext record of a delivery holds the task's
\* pre-signal pc and the signal mask in effect when the record is written,
\* and lies at a 16-byte-aligned address at least 128 bytes plus the size of
\* the record below the pre-signal stack pointer.
C17_SignalRecord ==
    \A t \in Tasks :
        HandlerStarts(t) =>
            /\ uctx[t].pc = lastSig[t].preCx.sepc
            /\ uctx[t].sig_mask = sigmask[t]
            /\ hs[t].frame % 16 = 0
            /\ hs[t].frame <= lastSig[t].preCx.sp - (128 + SigCxSize)

\* C18: no Syscall Step, of the main loop or of a signal delivery, starts
\* for a task whose exit status is already set.
C18_NoStepAfterExit ==
    \A t \in Tasks : lastStep[t].valid => ~lastStep[t].exitBefore

\* C19: a signal sent to a task while the task is inside handle_signal is not
\* lost: once that delivery has ended, the signal is still pending unless it
\* has been delivered since it was sent, also when it has the number of the
\* signal that was being handled.
C19_SignalNotLost ==
    \A t \in Tasks : pc[t] # "sig_loop" => owed[t] \subseteq pending[t]

\* C20: the stack pointer of the context the handler starts on is at or
\* below the address of the SignalUserContext record, so that the handler's
\* downward stack growth cannot reach the record.
C20_RecordOutOfHandlerStack ==
    \A t \in Tasks : HandlerStarts(t) => cx[t].sp <= hs[t].frame

=============================================================================
